---------------------------- MODULE Spec2Model ----------------------------
(***************************************************************************)
(* Model of the ABI encoder of src/cpp/encoders.hpp: the EncodeBuffer      *)
(* cursor over a shared byte vector, the word codec (write_word,           *)
(* align_size, write_aligned_bytes), the encoder class hierarchy           *)
(* (encoded_size / encode_to) and AbiEncoderBuilder::fromDefinition.       *)
(*                                                                         *)
(* Buffer positions are 0-based as in the source; the byte at position p   *)
(* of a storage s is s[p + 1].  A uint256_t is the sequence of its 32      *)
(* base-256 digits, least significant first (digit i is w[i + 1]), so that *)
(* the full 256-bit width is kept.                                         *)
(***************************************************************************)
EXTENDS Integers, Sequences, FiniteSets, TLC

VARIABLES
    buf,        \* buf_t: the byte vector every cursor refers to (_buf)
    cursors,    \* the _pos of every EncodeBuffer made over buf, in creation order
    log,        \* history: <<position, length>> of every EncodeBuffer::write
    pc,         \* "ready" before the operation under study, "done" after it
    word,       \* the uint256_t handed to write_word
    enc,        \* the encoder tree handed to encode_to
    def,        \* the TypeDefinition handed to fromDefinition
    built,      \* what fromDefinition produced
    fillerMem,  \* the memory found at &filler_bytes (write_aligned_bytes)
    start,      \* the storage and cursor position the operation under study began with
    ops         \* number of EncodeBuffer calls made so far

vars == <<buf, cursors, log, pc, word, enc, def, built, fillerMem, start, ops>>

ETH_WORD_SIZE == 32

(***************************************************************************)
(* Bounds of the model.                                                    *)
(***************************************************************************)
MaxOps == 4          \* EncodeBuffer calls in one behaviour of SpecBuf
MaxCursors == 3      \* EncodeBuffer objects over one storage in SpecBuf
MaxWriteLen == 2     \* bytes handed to one EncodeBuffer::write in SpecBuf
MaxViewPos == 3      \* largest position handed to view / reserve in SpecBuf
MaxBytesLen == 66    \* longest dynamic bytes value in SpecBytes
MaxLen == 2          \* most children of an outer list encoder in SpecEnc
MaxInnerLen == 1     \* most children of a nested list encoder in SpecEnc
MaxArraySize == 2    \* largest arraySize of a TypeDefinition in SpecBuilder

(***************************************************************************)
(* std::vector<byte>::resize(n): truncates, or appends value-initialised   *)
(* (zero) bytes.                                                           *)
(***************************************************************************)
\* the sequence <<F(lo), ..., F(hi)>>, every element worked out at once
Tabulate(F(_), lo, hi) ==
    SubSeq([k \in 1..(hi - lo + 1) |-> F(lo + k - 1)], 1, hi - lo + 1)

Resize(s, n) ==
    IF n <= Len(s)
    THEN SubSeq(s, 1, n)
    ELSE s \o [i \in 1..(n - Len(s)) |-> 0]

(***************************************************************************)
(* An EncodeBuffer is a reference to the shared storage and its own _pos.  *)
(* The operators below work on a record m = [buf, pos, log]: the storage,  *)
(* the _pos of the cursor the method is called on, and the write history.  *)
(***************************************************************************)
EncodeBuffer(b, p, l) == [buf |-> b, pos |-> p, log |-> l]

\* the value of result, with first worked out before it (evaluation order
\* only: the value is that of result)
InOrder(first, result) == <<first, result>>[2]

\* void reserve(size_t needed) { _buf.resize(_pos + needed); }
reserve(m, needed) == [m EXCEPT !.buf = Resize(m.buf, m.pos + needed)]

\* the loop of write (lines 29-31) over the storage as reserve left it:
\* _buf[_pos++] = *p for every byte
write_loop(m, resized, bytes) ==
    [buf |-> SubSeq(resized, 1, m.pos) \o bytes
             \o SubSeq(resized, m.pos + Len(bytes) + 1, Len(resized)),
     pos |-> m.pos + Len(bytes),
     log |-> Append(m.log, <<m.pos, Len(bytes)>>)]

\* void write(start, end): reserve(end - start), then the loop
write(m, bytes) ==
    InOrder(m, write_loop(m, reserve(m, Len(bytes)).buf, bytes))

\* EncodeBuffer view(size_t pos): the effect on the shared storage; the
\* cursor returned is EncodeBuffer(_buf, pos) and the callee's _pos is kept.
view(m, p) == IF p > m.pos THEN reserve(m, p - m.pos) ELSE m

\* size_t align_size(size_t s)
align_size(s) ==
    IF s % ETH_WORD_SIZE # 0
    THEN s + (ETH_WORD_SIZE - (s % ETH_WORD_SIZE))
    ELSE s


(***************************************************************************)
(* uint256_t (num.hpp): 256 bits, unsigned, unchecked.  Digit i of the     *)
(* value w is its i-th base-256 digit w[i + 1], 0 <= i <= 31.              *)
(***************************************************************************)
Digits == 0..(ETH_WORD_SIZE - 1)

U256Zero == Tabulate(LAMBDA i : 0, 0, ETH_WORD_SIZE - 1)

RECURSIVE DigitOf(_, _)
DigitOf(n, i) ==
    IF n = 0 THEN 0
    ELSE IF i = 0 THEN n % 256 ELSE DigitOf(n \div 256, i - 1)

\* uint256_t(n) for a size_t n
U256FromSize(n) == Tabulate(LAMBDA i : DigitOf(n, i), 0, ETH_WORD_SIZE - 1)

\* digit j of w, zero beyond the width of the type
DigitAt(w, j) == IF j \in Digits THEN w[j + 1] ELSE 0

\* w >> n on the 256-bit unsigned type (0 >> n = 0 is answered at once)
ShiftRight(w, n) ==
    LET q == n \div 8
        r == n % 8
        lo == 2^r
        hi == 2^(8 - r)
    IN IF w = U256Zero
       THEN U256Zero
       ELSE Tabulate(LAMBDA i : ((DigitAt(w, i + q) \div lo)
                                 + (DigitAt(w, i + q + 1) * hi)) % 256,
                     0, ETH_WORD_SIZE - 1)

\* byte(unsigned(w & 0xFF))
LowByte(w) == DigitAt(w, 0)

(***************************************************************************)
(* write_word: round i of the loop of lines 79-82 stores the low byte of w *)
(* in word_bytes[ETH_WORD_SIZE - i - 1] and shifts w right by 0xFF bits.   *)
(* word_loop gives the bytes stored by rounds i, i + 1, ..., 31 in that    *)
(* order; word_bytes_of puts each at the array element its round stores    *)
(* it in.  The 32 bytes are then written at the cursor.  assert(w == 0)    *)
(* follows the loop.                                                       *)
(***************************************************************************)
RECURSIVE word_loop(_, _)
word_loop(w, i) ==
    IF i < ETH_WORD_SIZE
    THEN <<LowByte(w)>> \o word_loop(ShiftRight(w, 255), i + 1)
    ELSE <<>>

word_bytes_of(w) ==
    LET stored == word_loop(w, 0)
    IN Tabulate(LAMBDA k : stored[(ETH_WORD_SIZE - k - 1) + 1], 0, ETH_WORD_SIZE - 1)

write_word(m, w) ==
    LET word_bytes == word_bytes_of(w)
        written == write(m, word_bytes)
    IN written

(***************************************************************************)
(* write_aligned_bytes: filler_bytes is a pointer variable, and the filler *)
(* is read from &filler_bytes (cast), the address of that variable:        *)
(* the bytes written are the first fill_size bytes of the memory starting  *)
(* at the variable itself (its 8-byte pointer value, then whatever the     *)
(* linker placed after it), not the bytes of the string literal.           *)
(***************************************************************************)
write_aligned_bytes(m, bytes) ==
    LET size == Len(bytes)
        aligned_size == align_size(size)
        fill_size == aligned_size - size
        content == write(m, bytes)
        filled == write(content, SubSeq(fillerMem, 1, fill_size))
    IN filled

\* The values &filler_bytes can show: a non-null little-endian address of
\* the literal, followed by the neighbouring static storage.
FillerMemories ==
    { <<0, 32, 64, 0, 0, 0, 0, 0>> \o [i \in 1..(ETH_WORD_SIZE - 9) |-> 0],
      <<16, 160, 85, 247, 255, 127, 0, 0>> \o [i \in 1..(ETH_WORD_SIZE - 9) |-> 204] }


(***************************************************************************)
(* The encoder hierarchy.  An encoder object is a record: its class        *)
(* (kind), and the member its class holds: _v of a WordEncoder (value),    *)
(* _bytes of a BytesArrayEncoder (bytes), _elements of a list encoder      *)
(* (elements), _numbers of a numeric array encoder (numbers).              *)
(***************************************************************************)
Encoder(k, v, b, es, ns) ==
    [kind |-> k, value |-> v, bytes |-> b, elements |-> es, numbers |-> ns]

WordEncoder(v) == Encoder("WordEncoder", v, <<>>, <<>>, <<>>)
BytesArrayEncoder(b) == Encoder("BytesArrayEncoder", U256Zero, b, <<>>, <<>>)
ListEncoder(k, es) == Encoder(k, U256Zero, <<>>, es, <<>>)
NumericArrayEncoder(k, ns) == Encoder(k, U256Zero, <<>>, <<>>, ns)

\* the classes whose encode_to is RefListEncoder::encode_to
RefKinds == {"RefListEncoder", "HomogeneousRefListEncoder", "DynamicRefArrayEncoder"}
\* the classes whose encode_to is InlineListEncoder::encode_to
InlineKinds ==
    {"InlineListEncoder", "HomogeneousInlineListEncoder", "DynamicInlineArrayValue"}

RECURSIVE encoded_size(_)
RECURSIVE SumSizes(_)
RECURSIVE encode_to(_, _, _)
RECURSIVE RefLoop(_, _, _, _)
RECURSIVE InlineLoop(_, _, _)
RECURSIVE NumericLoop(_, _, _)

\* the loops adding every element's encoded_size() (lines 212-214, 257-259)
SumSizes(es) ==
    IF es = <<>> THEN 0 ELSE encoded_size(Head(es)) + SumSizes(Tail(es))

\* BytesArrayEncoder::encoded_size
BytesArrayEncoder_encoded_size(e) ==
    ETH_WORD_SIZE + align_size(Len(e.bytes))

\* RefListEncoder::encoded_array_size (no subclass overrides it)
RefListEncoder_encoded_array_size(e) == Len(e.elements) * ETH_WORD_SIZE

\* RefListEncoder::encoded_size
RefListEncoder_encoded_size(e) ==
    RefListEncoder_encoded_array_size(e) + SumSizes(e.elements)

\* HomogeneousRefListEncoder::encoded_size with the shortcut counting the
\* first element once instead of once per element
HomogeneousRefListEncoder_encoded_size_once(e) ==
    RefListEncoder_encoded_array_size(e)
    + (IF Len(e.elements) # 0
       THEN encoded_size(e.elements[1])
       ELSE 0)

\* HomogeneousRefListEncoder::encoded_size
HomogeneousRefListEncoder_encoded_size(e) ==
    RefListEncoder_encoded_array_size(e)
    + (IF Len(e.elements) # 0
       THEN Len(e.elements) * encoded_size(e.elements[1])
       ELSE 0)

\* InlineListEncoder::encoded_array_size
InlineListEncoder_encoded_array_size(e) == SumSizes(e.elements)

\* HomogeneousInlineListEncoder::encoded_array_size (override)
HomogeneousInlineListEncoder_encoded_array_size(e) ==
    IF Len(e.elements) # 0
    THEN encoded_size(e.elements[1]) * Len(e.elements)
    ELSE 0

\* the virtual call encoded_array_size() on an object of class e.kind
encoded_array_size(e) ==
    CASE e.kind \in RefKinds -> RefListEncoder_encoded_array_size(e)
      [] e.kind = "InlineListEncoder" -> InlineListEncoder_encoded_array_size(e)
      [] e.kind \in {"HomogeneousInlineListEncoder", "DynamicInlineArrayValue"} ->
            HomogeneousInlineListEncoder_encoded_array_size(e)

\* InlineListEncoder::encoded_size, inherited by HomogeneousInlineListEncoder
InlineListEncoder_encoded_size(e) == encoded_array_size(e)

\* DynamicRefArrayEncoder::encoded_size (TBase = HomogeneousRefListEncoder)
DynamicRefArrayEncoder_encoded_size(e) ==
    HomogeneousRefListEncoder_encoded_size(e) + ETH_WORD_SIZE

\* DynamicInlineArrayValue::encoded_size (TBase = HomogeneousInlineListEncoder)
DynamicInlineArrayValue_encoded_size(e) ==
    InlineListEncoder_encoded_size(e) + ETH_WORD_SIZE

\* DynamicNumericArrayEncoder::encoded_size
DynamicNumericArrayEncoder_encoded_size(e) ==
    (Len(e.numbers) + 1) * ETH_WORD_SIZE

\* FixedNumericArrayEncoder::encoded_size
FixedNumericArrayEncoder_encoded_size(e) == Len(e.numbers) * ETH_WORD_SIZE

\* the virtual call encoded_size()
encoded_size(e) ==
    CASE e.kind = "WordEncoder" -> ETH_WORD_SIZE
      [] e.kind = "BytesArrayEncoder" -> BytesArrayEncoder_encoded_size(e)
      [] e.kind = "RefListEncoder" -> RefListEncoder_encoded_size(e)
      [] e.kind = "HomogeneousRefListEncoder" ->
            HomogeneousRefListEncoder_encoded_size(e)
      [] e.kind = "DynamicRefArrayEncoder" -> DynamicRefArrayEncoder_encoded_size(e)
      [] e.kind \in {"InlineListEncoder", "HomogeneousInlineListEncoder"} ->
            InlineListEncoder_encoded_size(e)
      [] e.kind = "DynamicInlineArrayValue" -> DynamicInlineArrayValue_encoded_size(e)
      [] e.kind = "DynamicNumericArrayEncoder" ->
            DynamicNumericArrayEncoder_encoded_size(e)
      [] e.kind = "FixedNumericArrayEncoder" ->
            FixedNumericArrayEncoder_encoded_size(e)

\* WordEncoder::encode_to -> value.encode(buf) -> write_word(buf, _value)
WordEncoder_encode_to(m, e) ==
    LET encoded == write_word(m, e.value)
    IN encoded

\* BytesArrayEncoder::encode_to
BytesArrayEncoder_encode_to(m, e) ==
    LET size_word == write_word(m, U256FromSize(Len(e.bytes)))
        content == write_aligned_bytes(size_word, e.bytes)
    IN content

(***************************************************************************)
(* RefListEncoder::encode_to.  s holds the shared storage and history,     *)
(* pos is buf._pos (the caller's cursor) and dpos is data_buf._pos.        *)
(* Round i writes the offset word through buf and the element through      *)
(* data_buf.  The caller's cursor is left where the last offset word ends. *)
(***************************************************************************)
\* the two cursors after a round: h is buf after the offset word, d is
\* data_buf after the element
RefRoundEnd(h, d) ==
    InOrder(h, InOrder(d,
        [buf |-> d.buf, log |-> d.log, pos |-> h.pos, dpos |-> d.pos]))

\* e->encode_to(data_buf) (line 228), the offset word written (h)
RefElement(s, h, e) ==
    RefRoundEnd(h, encode_to(EncodeBuffer(h.buf, s.dpos, h.log), e, 0))

\* one round: write_word(buf, data_buf.pos() - head_pos) (line 226), then
\* the element
RefStep(s, e, head_pos) ==
    InOrder(s, RefElement(s,
                          write_word(EncodeBuffer(s.buf, s.pos, s.log),
                                     U256FromSize(s.dpos - head_pos)),
                          e))

RefLoop(s, es, i, head_pos) ==
    IF i > Len(es)
    THEN s
    ELSE InOrder(s, RefLoop(RefStep(s, es[i], head_pos), es, i + 1, head_pos))

\* buf and data_buf as the loop starts: data_buf = buf.view(data_start)
RefCursors(data_buf, pos, data_start) ==
    [buf |-> data_buf.buf, log |-> data_buf.log, pos |-> pos, dpos |-> data_start]

\* the caller's cursor buf as the loop leaves it (data_buf is a local)
CallerCursor(s) == EncodeBuffer(s.buf, s.pos, s.log)

\* lines 220-229, data_start worked out (line 219);
\* head_pos = buf.pos() - prefix_size
RefListBody(m, data_start, e, prefix_size) ==
    CallerCursor(RefLoop(RefCursors(view(m, data_start), m.pos, data_start),
                         e.elements, 1, m.pos - prefix_size))

RefListEncoder_encode_to(m, e, prefix_size) ==
    InOrder(m, RefListBody(m, m.pos + encoded_array_size(e), e, prefix_size))

\* InlineListEncoder::encode_to: every element encodes through the same cursor
InlineLoop(m, es, i) ==
    IF i > Len(es)
    THEN m
    ELSE InOrder(m, InlineLoop(encode_to(m, es[i], 0), es, i + 1))

InlineListEncoder_encode_to(m, e) ==
    LET encoded == InlineLoop(m, e.elements, 1)
    IN encoded

\* DynamicRefArrayEncoder::encode_to
DynamicRefArrayEncoder_encode_to(m, e) ==
    LET length_word == write_word(m, U256FromSize(Len(e.elements)))
        list == RefListEncoder_encode_to(length_word, e, ETH_WORD_SIZE)
    IN list

\* DynamicInlineArrayValue::encode_to
DynamicInlineArrayValue_encode_to(m, e) ==
    LET length_word == write_word(m, U256FromSize(Len(e.elements)))
        list == InlineListEncoder_encode_to(length_word, e)
    IN list

\* the loops "write_word(buf, *i)" of lines 352-354, 370-372
NumericLoop(m, ns, i) ==
    IF i > Len(ns)
    THEN m
    ELSE InOrder(m, NumericLoop(write_word(m, ns[i]), ns, i + 1))

\* DynamicNumericArrayEncoder::encode_to
DynamicNumericArrayEncoder_encode_to(m, e) ==
    LET length_word == write_word(m, U256FromSize(Len(e.numbers)))
        encoded == NumericLoop(length_word, e.numbers, 1)
    IN encoded

\* FixedNumericArrayEncoder::encode_to
FixedNumericArrayEncoder_encode_to(m, e) ==
    LET encoded == NumericLoop(m, e.numbers, 1)
    IN encoded

\* the virtual call encode_to(buf, prefix_size) on the cursor m
encode_to(m, e, prefix_size) ==
    CASE e.kind = "WordEncoder" -> WordEncoder_encode_to(m, e)
      [] e.kind = "BytesArrayEncoder" -> BytesArrayEncoder_encode_to(m, e)
      [] e.kind \in {"RefListEncoder", "HomogeneousRefListEncoder"} ->
            RefListEncoder_encode_to(m, e, prefix_size)
      [] e.kind \in {"InlineListEncoder", "HomogeneousInlineListEncoder"} ->
            InlineListEncoder_encode_to(m, e)
      [] e.kind = "DynamicRefArrayEncoder" -> DynamicRefArrayEncoder_encode_to(m, e)
      [] e.kind = "DynamicInlineArrayValue" -> DynamicInlineArrayValue_encode_to(m, e)
      [] e.kind = "DynamicNumericArrayEncoder" ->
            DynamicNumericArrayEncoder_encode_to(m, e)
      [] e.kind = "FixedNumericArrayEncoder" ->
            FixedNumericArrayEncoder_encode_to(m, e)

(***************************************************************************)
(* AbiEncoderBuilder::fromDefinition.  The result is the set of outcomes   *)
(* the call can have: an encoder of the named class returned, the string   *)
(* thrown, or, where control reaches the closing brace of the function     *)
(* without a return statement (lines 436-441), what an undefined return    *)
(* gives: an indeterminate pointer handed back, or a trap.                 *)
(***************************************************************************)
Returned(cls) == [outcome |-> "return", encoder |-> cls, error |-> "none"]
Thrown(msg) == [outcome |-> "throw", encoder |-> "none", error |-> msg]
NoReturn ==
    { [outcome |-> "return", encoder |-> "indeterminate", error |-> "none"],
      [outcome |-> "trap", encoder |-> "none", error |-> "none"] }

RecognizedBaseTypes == {"uint", "int", "bytes"}

fromDefinition(d) ==
    IF ~d.isArray
    THEN CASE d.baseType = "uint" -> {Returned("UintEncoder")}
           [] d.baseType = "int" -> {Returned("IntEncoder")}
           [] d.baseType = "bytes" -> {Returned("BytesEncoder")}
           [] OTHER -> {Thrown("Unsupported baseType")}
    ELSE IF d.arraySize = 0
         THEN IF d.baseType \in RecognizedBaseTypes
              THEN {Returned("DynamicWordArrayEncoder")}
              ELSE {Returned("DynamicArrayEncoder")}
         ELSE IF d.baseType \in RecognizedBaseTypes
              THEN {Returned("FixedWordArrayEncoder")}
              ELSE NoReturn

(***************************************************************************)
(* Values the variables hold while the specification at hand does not use  *)
(* them.                                                                   *)
(***************************************************************************)
NoEncoder == Encoder("none", U256Zero, <<>>, <<>>, <<>>)
NoDefinition == [isArray |-> FALSE, baseType |-> "none", arraySize |-> 0, typeSize |-> 0]
NotBuilt == [outcome |-> "none", encoder |-> "none", error |-> "none"]
NoFiller == <<>>

\* the storages an operation can start from: an empty vector with the cursor
\* at 0, or one word already written and the cursor behind it
Starts ==
    { [buf |-> <<>>, pos |-> 0],
      [buf |-> [i \in 1..ETH_WORD_SIZE |-> 238], pos |-> ETH_WORD_SIZE] }

(***************************************************************************)
(* SpecBuf: any caller of the public EncodeBuffer interface, with several  *)
(* cursors over one storage.                                               *)
(***************************************************************************)
DataBytes == {17, 34}

WriteArgs == UNION { [1..n -> DataBytes] : n \in 0..MaxWriteLen }

InitBuf ==
    /\ buf = <<>>
    /\ cursors = <<0>>
    /\ log = <<>>
    /\ pc = "ready"
    /\ word = U256Zero
    /\ enc = NoEncoder
    /\ def = NoDefinition
    /\ built = NotBuilt
    /\ fillerMem = NoFiller
    /\ start = [buf |-> <<>>, pos |-> 0]
    /\ ops = 0

Reserve(c, n) ==
    /\ ops < MaxOps
    /\ buf' = reserve(EncodeBuffer(buf, cursors[c], log), n).buf
    /\ ops' = ops + 1
    /\ UNCHANGED <<cursors, log, pc, word, enc, def, built, fillerMem, start>>

\* the storage, cursor c and the history as a call through cursor c left them
Called(c, r) ==
    /\ buf' = r.buf
    /\ cursors' = [cursors EXCEPT ![c] = r.pos]
    /\ log' = r.log

Write(c, bytes) ==
    /\ ops < MaxOps
    /\ Called(c, write(EncodeBuffer(buf, cursors[c], log), bytes))
    /\ ops' = ops + 1
    /\ UNCHANGED <<pc, word, enc, def, built, fillerMem, start>>

View(c, p) ==
    /\ ops < MaxOps
    /\ Len(cursors) < MaxCursors
    /\ buf' = view(EncodeBuffer(buf, cursors[c], log), p).buf
    /\ cursors' = Append(cursors, p)
    /\ ops' = ops + 1
    /\ UNCHANGED <<log, pc, word, enc, def, built, fillerMem, start>>

NextBuf ==
    \/ \E c \in DOMAIN cursors, n \in 0..MaxViewPos : Reserve(c, n)
    \/ \E c \in DOMAIN cursors, bytes \in WriteArgs : Write(c, bytes)
    \/ \E c \in DOMAIN cursors, p \in 0..MaxViewPos : View(c, p)

SpecBuf == InitBuf /\ [][NextBuf]_vars

(***************************************************************************)
(* SpecWord: one call of write_word on a uint256_t.                        *)
(***************************************************************************)
DigitValues == {0, 1, 128, 255}

\* the 256-bit values with at most two non-zero digits
WordValues ==
    { [i \in 1..ETH_WORD_SIZE |->
            IF i - 1 = a THEN x ELSE IF i - 1 = b THEN y ELSE 0] :
        a \in Digits, b \in Digits, x \in DigitValues, y \in DigitValues }

InitWord ==
    /\ start \in Starts
    /\ buf = start.buf
    /\ cursors = <<start.pos>>
    /\ log = <<>>
    /\ pc = "ready"
    /\ word \in WordValues
    /\ enc = NoEncoder
    /\ def = NoDefinition
    /\ built = NotBuilt
    /\ fillerMem = NoFiller
    /\ ops = 0

WriteWord ==
    /\ pc = "ready"
    /\ Called(1, write_word(EncodeBuffer(buf, cursors[1], log), word))
    /\ pc' = "done"
    /\ UNCHANGED <<word, enc, def, built, fillerMem, start, ops>>

SpecWord == InitWord /\ [][WriteWord]_vars

(***************************************************************************)
(* The top-level encode_to of an encoder tree, shared by SpecBytes and     *)
(* SpecEnc.                                                                *)
(***************************************************************************)
EncodeTo ==
    /\ pc = "ready"
    /\ Called(1, encode_to(EncodeBuffer(buf, cursors[1], log), enc, 0))
    /\ pc' = "done"
    /\ UNCHANGED <<word, enc, def, built, fillerMem, start, ops>>

InitEncoding(encoders) ==
    /\ start \in Starts
    /\ buf = start.buf
    /\ cursors = <<start.pos>>
    /\ log = <<>>
    /\ pc = "ready"
    /\ word = U256Zero
    /\ enc \in encoders
    /\ def = NoDefinition
    /\ built = NotBuilt
    /\ fillerMem \in FillerMemories
    /\ ops = 0

(***************************************************************************)
(* SpecBytes: a BytesArrayEncoder over byte strings of every length up to  *)
(* MaxBytesLen.                                                            *)
(***************************************************************************)
BytesValues ==
    { [i \in 1..n |-> (c + i) % 256] : n \in 0..MaxBytesLen, c \in {0, 170} }

BytesEncoders == { BytesArrayEncoder(b) : b \in BytesValues }

InitBytes == InitEncoding(BytesEncoders)

SpecBytes == InitBytes /\ [][EncodeTo]_vars

(***************************************************************************)
(* SpecEnc: encoder trees of two levels.                                   *)
(***************************************************************************)
SeqsUpTo(S, n) == UNION { [1..k -> S] : k \in 0..n }

NumberValues == { U256FromSize(5), U256FromSize(258) }

Leaves ==
    { WordEncoder(v) : v \in NumberValues }
    \cup { BytesArrayEncoder(<<170>>) }

InnerLeaves == { WordEncoder(U256FromSize(5)) }

InnerKinds == {"RefListEncoder", "InlineListEncoder"}

ListKinds == RefKinds \cup InlineKinds

InnerLists ==
    { ListEncoder(k, es) : k \in InnerKinds, es \in SeqsUpTo(InnerLeaves, MaxInnerLen) }

OuterLists ==
    { ListEncoder(k, es) :
        k \in ListKinds, es \in SeqsUpTo(Leaves \cup InnerLists, MaxLen) }

NumericArrays ==
    { NumericArrayEncoder(k, ns) :
        k \in {"DynamicNumericArrayEncoder", "FixedNumericArrayEncoder"},
        ns \in SeqsUpTo(NumberValues, MaxLen) }

Encoders == Leaves \cup OuterLists \cup NumericArrays

InitEnc == InitEncoding(Encoders)

SpecEnc == InitEnc /\ [][EncodeTo]_vars

(***************************************************************************)
(* SpecBuilder: one call of fromDefinition on a type description.          *)
(***************************************************************************)
BaseTypes == {"uint", "int", "bytes", "string", "address", "bool", "tuple"}

TypeDefinitions ==
    [isArray : BOOLEAN, baseType : BaseTypes, arraySize : 0..MaxArraySize,
     typeSize : {8, 32, 256}]

InitBuilder ==
    /\ buf = <<>>
    /\ cursors = <<0>>
    /\ log = <<>>
    /\ pc = "ready"
    /\ word = U256Zero
    /\ enc = NoEncoder
    /\ def \in TypeDefinitions
    /\ built = NotBuilt
    /\ fillerMem = NoFiller
    /\ start = [buf |-> <<>>, pos |-> 0]
    /\ ops = 0

FromDefinition ==
    /\ pc = "ready"
    /\ \E r \in fromDefinition(def) : built' = r
    /\ pc' = "done"
    /\ UNCHANGED <<buf, cursors, log, word, enc, def, fillerMem, start, ops>>

SpecBuilder == InitBuilder /\ [][FromDefinition]_vars


(***************************************************************************)
(* What the claims speak of.  These are the format's own notions (the      *)
(* big-endian word of a number, rounding up to a word boundary), stated    *)
(* without the code under study.                                           *)
(***************************************************************************)
\* the 32 bytes of the uint256 w, most significant byte first
BigEndian(w) == Tabulate(LAMBDA i : DigitAt(w, ETH_WORD_SIZE - 1 - i), 0, ETH_WORD_SIZE - 1)

\* the big-endian word of a natural number
WordOf(n) == BigEndian(U256FromSize(n))

\* the 32 bytes of b from position p on
WordAt(b, p) == SubSeq(b, p + 1, p + ETH_WORD_SIZE)

\* the number a word stands for, where it is below 2^24 (else -1)
NumberOf(w) ==
    IF \A i \in 1..(ETH_WORD_SIZE - 3) : w[i] = 0
    THEN (w[ETH_WORD_SIZE - 2] * 256 + w[ETH_WORD_SIZE - 1]) * 256 + w[ETH_WORD_SIZE]
    ELSE -1

\* n rounded up to the next multiple of 32
RoundedUp(n) == ((n + ETH_WORD_SIZE - 1) \div ETH_WORD_SIZE) * ETH_WORD_SIZE

\* positions start .. start + len - 1 of two writes share no position
Disjoint(a, b) ==
    a[2] = 0 \/ b[2] = 0 \/ a[1] + a[2] <= b[1] \/ b[1] + b[2] <= a[1]

\* every child of es has the encoded size of the first
Uniform(es) == \A i \in DOMAIN es : encoded_size(es[i]) = encoded_size(es[1])

HomogeneousKinds ==
    {"HomogeneousRefListEncoder", "HomogeneousInlineListEncoder",
     "DynamicRefArrayEncoder", "DynamicInlineArrayValue"}

\* no homogeneous encoder of the tree holds children of different sizes
RECURSIVE WellFormed(_)
WellFormed(e) ==
    /\ e.kind \in HomogeneousKinds => Uniform(e.elements)
    /\ \A i \in DOMAIN e.elements : WellFormed(e.elements[i])

\* the bytes an encoder writes when it is encoded on its own
OwnEncoding(e) == encode_to(EncodeBuffer(<<>>, 0, <<>>), e, 0).buf

\* the sum of the encoded sizes of the first n children
RECURSIVE SizeBefore(_, _)
SizeBefore(es, n) ==
    IF n = 0 THEN 0 ELSE SizeBefore(es, n - 1) + encoded_size(es[n])

\* the generic encoder over the same children
GenericOf(e) ==
    [e EXCEPT !.kind = IF e.kind = "HomogeneousRefListEncoder"
                       THEN "RefListEncoder"
                       ELSE "InlineListEncoder"]

FromEmpty == start.buf = <<>> /\ start.pos = 0

(***************************************************************************)
(* C1: a RefListEncoder of k elements encoded at head start h leaves, at   *)
(* the cursor, k offset words in element order and in ascending order, and *)
(* at h + offset_i of the finished buffer the encoding of element i.       *)
(***************************************************************************)
C1_OffsetsPointToElements ==
    (pc = "done" /\ enc.kind \in {"RefListEncoder", "HomogeneousRefListEncoder"}
        /\ WellFormed(enc))
    => LET k == Len(enc.elements)
           h == start.pos
           offset(i) == NumberOf(WordAt(buf, h + (i - 1) * ETH_WORD_SIZE))
           own(i) == OwnEncoding(enc.elements[i])
       IN /\ Len(buf) >= h + k * ETH_WORD_SIZE
          /\ \A i \in 1..k :
                /\ offset(i) >= 0
                /\ i < k => offset(i) <= offset(i + 1)
                /\ h + offset(i) + Len(own(i)) <= Len(buf)
                /\ SubSeq(buf, h + offset(i) + 1, h + offset(i) + Len(own(i))) = own(i)

(***************************************************************************)
(* C2: a write or a reserve through any cursor never shortens the shared   *)
(* storage, keeps every byte written before outside the range written now, *)
(* and a write of n bytes advances its cursor by exactly n.                *)
(***************************************************************************)
C2_WriteOnlyGrows ==
    [][ (ops' = ops + 1 /\ Len(cursors') = Len(cursors))
        => /\ Len(buf') >= Len(buf)
           /\ \A w \in 1..Len(log) : \A q \in log[w][1]..(log[w][1] + log[w][2] - 1) :
                 (/\ q < Len(buf)
                  /\ \/ Len(log') = Len(log)
                     \/ Disjoint(<<q, 1>>, log'[Len(log')]))
                 => (q < Len(buf') /\ buf'[q + 1] = buf[q + 1])
           /\ Len(log') > Len(log)
                => \E c \in DOMAIN cursors :
                      /\ cursors[c] = log'[Len(log')][1]
                      /\ cursors' = [cursors EXCEPT ![c] = cursors[c] + log'[Len(log')][2]]
      ]_vars

(***************************************************************************)
(* C3: in one top-level encode_to of an encoder tree no buffer position is *)
(* written more than once: the ranges of the writes are pairwise disjoint. *)
(***************************************************************************)
C3_WritesDisjoint ==
    (pc = "done" /\ WellFormed(enc))
    => \A i \in DOMAIN log : \A j \in DOMAIN log :
          i < j => Disjoint(log[i], log[j])

(***************************************************************************)
(* C4: a DynamicRefArrayEncoder of k elements encoded at position p writes *)
(* the count word at p, and offset word i is the distance from p + 32 (the *)
(* first offset word) to the data of element i: the first offset is 32*k.  *)
(***************************************************************************)
C4_OffsetsFromOwnHead ==
    (pc = "done" /\ enc.kind = "DynamicRefArrayEncoder" /\ WellFormed(enc))
    => LET k == Len(enc.elements)
           p == start.pos
       IN /\ Len(buf) >= p + (k + 1) * ETH_WORD_SIZE
          /\ WordAt(buf, p) = WordOf(k)
          /\ \A i \in 1..k :
                NumberOf(WordAt(buf, p + i * ETH_WORD_SIZE))
                    = k * ETH_WORD_SIZE + SizeBefore(enc.elements, i - 1)

(***************************************************************************)
(* C5: write_word of an unsigned v below 2^256 writes exactly 32 bytes,    *)
(* byte i being floor(v / 256^(31 - i)) mod 256.                           *)
(***************************************************************************)
C5_WordIsBigEndian ==
    pc = "done"
    => /\ Len(buf) = start.pos + ETH_WORD_SIZE
       /\ cursors[1] = start.pos + ETH_WORD_SIZE
       /\ \A i \in Digits : buf[start.pos + i + 1] = DigitAt(word, ETH_WORD_SIZE - 1 - i)

(***************************************************************************)
(* C6: a BytesArrayEncoder over L bytes reports 32 + aligned_size(L) and   *)
(* writes exactly that many bytes: the length word, the L bytes unchanged, *)
(* then aligned_size(L) - L zero bytes.                                    *)
(***************************************************************************)
C6_BytesLayout ==
    (pc = "done" /\ enc.kind = "BytesArrayEncoder")
    => LET L == Len(enc.bytes)
           p == start.pos
           size == ETH_WORD_SIZE + RoundedUp(L)
       IN /\ encoded_size(enc) = size
          /\ Len(buf) = p + size
          /\ cursors[1] = p + size
          /\ WordAt(buf, p) = WordOf(L)
          /\ SubSeq(buf, p + ETH_WORD_SIZE + 1, p + ETH_WORD_SIZE + L) = enc.bytes
          /\ \A q \in (p + ETH_WORD_SIZE + L + 1)..(p + size) : buf[q] = 0

(***************************************************************************)
(* C7: over children of one encoded size (or none), the homogeneous and    *)
(* the generic encoder of the same base report the same encoded_size and   *)
(* leave the same storage and cursor from the same start.                  *)
(***************************************************************************)
C7_HomogeneousMatchesGeneric ==
    (pc = "done"
        /\ enc.kind \in {"HomogeneousRefListEncoder", "HomogeneousInlineListEncoder"}
        /\ Uniform(enc.elements))
    => LET generic == encode_to(EncodeBuffer(start.buf, start.pos, <<>>), GenericOf(enc), 0)
       IN /\ encoded_size(enc) = encoded_size(GenericOf(enc))
          /\ buf = generic.buf
          /\ cursors[1] = generic.pos

\* a homogeneous ref list of several children larger than a word was encoded
C7_Witness ==
    /\ pc = "done"
    /\ enc.kind = "HomogeneousRefListEncoder"
    /\ Len(enc.elements) >= 2
    /\ Uniform(enc.elements)
    /\ encoded_size(enc.elements[1]) > ETH_WORD_SIZE

(***************************************************************************)
(* C8: fromDefinition of a description whose base type is none of uint,    *)
(* int, bytes fails with the unsupported-type error and hands back no      *)
(* encoder, be it a non-array, a fixed-length or a dynamic-length array.   *)
(***************************************************************************)
C8_UnknownBaseTypeRejected ==
    (pc = "done" /\ def.baseType \notin RecognizedBaseTypes)
    => built = Thrown("Unsupported baseType")

(***************************************************************************)
(* C9: a dynamic array of k word scalars encoded into an empty buffer      *)
(* gives (k + 1) * 32 bytes: the count word, then the word of every value  *)
(* in order, from DynamicNumericArrayEncoder and DynamicInlineArrayValue.  *)
(***************************************************************************)
WordsOnly(e) ==
    \/ e.kind = "DynamicNumericArrayEncoder"
    \/ /\ e.kind = "DynamicInlineArrayValue"
       /\ \A i \in DOMAIN e.elements : e.elements[i].kind = "WordEncoder"

ValuesOf(e) ==
    IF e.kind = "DynamicNumericArrayEncoder"
    THEN e.numbers
    ELSE [i \in DOMAIN e.elements |-> e.elements[i].value]

C9_DynamicWordArray ==
    (pc = "done" /\ FromEmpty /\ WordsOnly(enc))
    => LET vs == ValuesOf(enc)
           k == Len(vs)
       IN /\ Len(buf) = (k + 1) * ETH_WORD_SIZE
          /\ WordAt(buf, 0) = WordOf(k)
          /\ \A i \in 1..k : WordAt(buf, i * ETH_WORD_SIZE) = BigEndian(vs[i])

(***************************************************************************)
(* C10: after encode_to of an encoder tree on an empty buffer with the     *)
(* cursor at 0, the storage is exactly encoded_size() bytes long.          *)
(***************************************************************************)
C10_LengthIsEncodedSize ==
    (pc = "done" /\ FromEmpty /\ WellFormed(enc))
    => Len(buf) = encoded_size(enc)

=============================================================================
